---------------------------- MODULE Spec2Model ----------------------------
(***************************************************************************)
(* A model of piksi_tools/ardupilot/sbp_log_zipper.py: the GPS-time        *)
(* comparators, the timestamp extraction, the two-way merge                *)
(* zip_json_generators and the log splitter of main.                       *)
(*                                                                         *)
(* A message is a record [msg_type, sender, wn, tow]; wn and tow stand for *)
(* the (wn, tow) pair found under the kind's own field path (header.t,     *)
(* common.toe or t_nmct).  A log file is the sequence of its messages: the *)
(* JSON line format belongs to the sbp library.                            *)
(***************************************************************************)
EXTENDS Integers, Sequences, FiniteSets, Bags, TLC

(***************************************************************************)
(* Bounds of the model.                                                    *)
(***************************************************************************)
MaxLen == 2
MaxWn == 1
MaxTow == 1
MaxBrate == 2

(***************************************************************************)
(* Message types (sbp.observation constants, and one type of another       *)
(* module of the protocol).                                                *)
(***************************************************************************)
SBP_MSG_OBS == "MSG_OBS"
SBP_MSG_OSR == "MSG_OSR"
SBP_MSG_EPHEMERIS_GPS == "MSG_EPHEMERIS_GPS"
SBP_MSG_EPHEMERIS_GPS_DEP_E == "MSG_EPHEMERIS_GPS_DEP_E"
SBP_MSG_EPHEMERIS_GPS_DEP_F == "MSG_EPHEMERIS_GPS_DEP_F"
SBP_MSG_EPHEMERIS_BDS == "MSG_EPHEMERIS_BDS"
SBP_MSG_EPHEMERIS_GAL == "MSG_EPHEMERIS_GAL"
SBP_MSG_EPHEMERIS_QZSS == "MSG_EPHEMERIS_QZSS"
SBP_MSG_EPHEMERIS_SBAS == "MSG_EPHEMERIS_SBAS"
SBP_MSG_EPHEMERIS_SBAS_DEP_A == "MSG_EPHEMERIS_SBAS_DEP_A"
SBP_MSG_EPHEMERIS_SBAS_DEP_B == "MSG_EPHEMERIS_SBAS_DEP_B"
SBP_MSG_EPHEMERIS_GLO == "MSG_EPHEMERIS_GLO"
SBP_MSG_EPHEMERIS_GLO_DEP_A == "MSG_EPHEMERIS_GLO_DEP_A"
SBP_MSG_EPHEMERIS_GLO_DEP_B == "MSG_EPHEMERIS_GLO_DEP_B"
SBP_MSG_EPHEMERIS_GLO_DEP_C == "MSG_EPHEMERIS_GLO_DEP_C"
SBP_MSG_EPHEMERIS_GLO_DEP_D == "MSG_EPHEMERIS_GLO_DEP_D"
SBP_MSG_EPHEMERIS_DEP_A == "MSG_EPHEMERIS_DEP_A"
SBP_MSG_EPHEMERIS_DEP_B == "MSG_EPHEMERIS_DEP_B"
SBP_MSG_EPHEMERIS_DEP_C == "MSG_EPHEMERIS_DEP_C"
SBP_MSG_EPHEMERIS_DEP_D == "MSG_EPHEMERIS_DEP_D"
SBP_MSG_BASE_POS_LLH == "MSG_BASE_POS_LLH"
SBP_MSG_BASE_POS_ECEF == "MSG_BASE_POS_ECEF"
SBP_MSG_IONO == "MSG_IONO"
SBP_MSG_GLO_BIASES == "MSG_GLO_BIASES"
SBP_MSG_LOG == "MSG_LOG"

\* msgs_filter: the kinds the zipper passes through.
msgs_filter ==
  { SBP_MSG_OBS, SBP_MSG_OSR,
    SBP_MSG_EPHEMERIS_GPS, SBP_MSG_EPHEMERIS_GPS_DEP_E,
    SBP_MSG_EPHEMERIS_GPS_DEP_F, SBP_MSG_EPHEMERIS_BDS,
    SBP_MSG_EPHEMERIS_GAL, SBP_MSG_EPHEMERIS_SBAS_DEP_A,
    SBP_MSG_EPHEMERIS_GLO_DEP_A, SBP_MSG_EPHEMERIS_SBAS_DEP_B,
    SBP_MSG_EPHEMERIS_SBAS, SBP_MSG_EPHEMERIS_GLO_DEP_B,
    SBP_MSG_EPHEMERIS_GLO_DEP_C, SBP_MSG_EPHEMERIS_GLO_DEP_D,
    SBP_MSG_EPHEMERIS_GLO, SBP_MSG_EPHEMERIS_DEP_D,
    SBP_MSG_EPHEMERIS_DEP_A, SBP_MSG_EPHEMERIS_DEP_B,
    SBP_MSG_EPHEMERIS_DEP_C, SBP_MSG_BASE_POS_LLH,
    SBP_MSG_BASE_POS_ECEF, SBP_MSG_IONO, SBP_MSG_GLO_BIASES }

\* msgs_filter_eph: the kinds timestamped by common.toe.
msgs_filter_eph ==
  { SBP_MSG_EPHEMERIS_GPS, SBP_MSG_EPHEMERIS_GPS_DEP_E,
    SBP_MSG_EPHEMERIS_GPS_DEP_F, SBP_MSG_EPHEMERIS_BDS,
    SBP_MSG_EPHEMERIS_GAL, SBP_MSG_EPHEMERIS_SBAS,
    SBP_MSG_EPHEMERIS_SBAS_DEP_A, SBP_MSG_EPHEMERIS_SBAS_DEP_B,
    SBP_MSG_EPHEMERIS_QZSS, SBP_MSG_EPHEMERIS_GLO,
    SBP_MSG_EPHEMERIS_GLO_DEP_A, SBP_MSG_EPHEMERIS_GLO_DEP_B,
    SBP_MSG_EPHEMERIS_GLO_DEP_C, SBP_MSG_EPHEMERIS_GLO_DEP_D,
    SBP_MSG_EPHEMERIS_DEP_A, SBP_MSG_EPHEMERIS_DEP_B,
    SBP_MSG_EPHEMERIS_DEP_C, SBP_MSG_EPHEMERIS_DEP_D }

(***************************************************************************)
(* Values.                                                                 *)
(***************************************************************************)
\* Python's None in a message slot.
None == [msg_type |-> "None", sender |-> 0, wn |-> 0, tow |-> 0]

\* The value a function returns when it falls off its end (None as a time).
NoTime == <<-1, -1>>

\* The default (0, 0) of last_gpstime and last_base_gpstime.
ZeroTime == <<0, 0>>

Msg(k, s, w, t) == [msg_type |-> k, sender |-> s, wn |-> w, tow |-> t]

\* The code reads sender only as zero or not (== 0, truthiness).
Senders == {0, 1}
Wns == 0..MaxWn
Tows == 0..MaxTow
Brates == 0..MaxBrate
Times == Wns \X Tows

\* The messages the input logs are drawn from: a self-timestamped
\* pass-through kind at every time, an inherited-timestamp pass-through kind
\* and a kind outside the pass-through set, each from every sender.
Msgs ==
  { Msg(SBP_MSG_OBS, s, w, t) : s \in Senders, w \in Wns, t \in Tows }
    \cup { Msg(k, s, 0, 0) : k \in {SBP_MSG_BASE_POS_ECEF, SBP_MSG_LOG},
                             s \in Senders }

SeqsUpTo(S, n) == UNION { [1..k -> S] : k \in 0..n }

(***************************************************************************)
(* extract_gpstime, compare_gpstime, compare_gpstime_brate.                *)
(***************************************************************************)
\* Truth value of the bare operand `ob.SBP_MSG_GLO_BIASES` of the last elif
\* of extract_gpstime: a non-zero message type number.
GloBiasesOperand == SBP_MSG_GLO_BIASES # ""

extract_gpstime(msg, last) ==
  IF msg.msg_type = SBP_MSG_OBS \/ msg.msg_type = SBP_MSG_OSR
    THEN <<msg.wn, msg.tow>>
  ELSE IF msg.msg_type \in msgs_filter_eph
    THEN <<msg.wn, msg.tow>>
  ELSE IF msg.msg_type = SBP_MSG_IONO
    THEN <<msg.wn, msg.tow>>
  ELSE IF \/ msg.msg_type = SBP_MSG_BASE_POS_ECEF
          \/ msg.msg_type = SBP_MSG_BASE_POS_LLH
          \/ GloBiasesOperand
    THEN last
  ELSE NoTime

compare_gpstime(g0, g1) ==
  IF g0[1] < g1[1] THEN 0
  ELSE IF g0[1] > g1[1] THEN 1
  ELSE IF g0[2] < g1[2] THEN 0
  ELSE IF g0[2] > g1[2] THEN 1
  ELSE 0

\* compare_gpstime_brate with > for >= in its last test.
compare_gpstime_brate_strict(g0, g1, b) ==
  IF g0[1] < g1[1] THEN 0
  ELSE IF g0[1] > g1[1] THEN 1
  ELSE IF g0[2] = g1[2] THEN 1
  ELSE IF g0[2] > g1[2] + b THEN 1
  ELSE 0

\* compare_gpstime_brate without its test of equal tow.
compare_gpstime_brate_noeq(g0, g1, b) ==
  IF g0[1] < g1[1] THEN 0
  ELSE IF g0[1] > g1[1] THEN 1
  ELSE IF g0[2] >= g1[2] + b THEN 1
  ELSE 0

\* compare_gpstime_brate without its test of an earlier week.
compare_gpstime_brate_noweek(g0, g1, b) ==
  IF g0[1] > g1[1] THEN 1
  ELSE IF g0[2] = g1[2] THEN 1
  ELSE IF g0[2] >= g1[2] + b THEN 1
  ELSE 0

compare_gpstime_brate(g0, g1, b) ==
  IF g0[1] < g1[1] THEN 0
  ELSE IF g0[1] > g1[1] THEN 1
  ELSE IF g0[2] = g1[2] THEN 1
  ELSE IF g0[2] >= g1[2] + b THEN 1
  ELSE 0

(***************************************************************************)
(* State.                                                                  *)
(***************************************************************************)
VARIABLES
  pc,                \* position: "base", "rove", "decide", "done"
  base_log,          \* the messages base_gen yields, in order
  rove_log,          \* the messages rove_gen yields, in order
  base_pos,          \* messages base_gen has yielded so far
  rove_pos,          \* messages rove_gen has yielded so far
  brate,             \* minimum separation of accepted base messages
  base_msg,          \* pending base message, or None
  rove_msg,          \* pending rover message, or None
  last_gpstime,
  last_base_gpstime,
  out,               \* the calls of emit_fn, in order
  base_hist,         \* one entry per message pulled from base_gen
  log_in,            \* main: the messages of the combined log args.rover_log
  log_pos,           \* main: messages msg_gen has yielded so far
  cmp_g0,            \* a direct call of a comparator: first argument
  cmp_g1,            \* second argument
  cmp_b,             \* brate argument
  cmp_which,         \* what compare_gpstime returned (-1: not called)
  cmp_pass,          \* what compare_gpstime_brate returned (-1: not called)
  ext_msg,           \* a direct call of extract_gpstime: the message
  ext_last,          \* its last_gpstime argument
  ext_res,           \* what it returned (NotCalled: not called)
  args_base          \* main: args.base[0], '' when no base log is given

mainvars == << log_in, log_pos, args_base >>

cmpvars == << cmp_g0, cmp_g1, cmp_b, cmp_which, cmp_pass, ext_msg, ext_last,
             ext_res >>

vars == << pc, base_log, rove_log, base_pos, rove_pos, brate, base_msg,
           rove_msg, last_gpstime, last_base_gpstime, out, base_hist,
           log_in, log_pos, cmp_g0, cmp_g1, cmp_b, cmp_which, cmp_pass,
           ext_msg, ext_last, ext_res, args_base >>

(***************************************************************************)
(* zip_json_generators.                                                    *)
(***************************************************************************)
\* The gate alone, without the kind filter.
BaseAccepted_NoFilter(m, t) ==
  compare_gpstime_brate(t, last_base_gpstime, brate) = 1

\* Line 165: the test a base message must pass to be kept.
BaseAccepted(m, t) ==
  /\ m.msg_type \in msgs_filter
  /\ compare_gpstime_brate(t, last_base_gpstime, brate) = 1

\* The base message kept as it came.
FixUpBaseId_Keep(m) == m

\* Line 168: base_msg.sender = 0.
FixUpBaseId(m) == [m EXCEPT !.sender = 0]

\* The kind filter alone, without the sender test.
RoveAccepted_NoSender(m) == m.msg_type \in msgs_filter

\* The rover test without its kind filter.
RoveAccepted_NoFilter(m) == m.sender # 0

\* Line 180: the test a rover message must pass to be kept.
RoveAccepted(m) ==
  /\ m.sender # 0
  /\ m.msg_type \in msgs_filter

\* emit_fn(msg); time is extract_gpstime of the message against last_gpstime
\* at the call.
Emitted(m, src, t) == [msg |-> m, src |-> src, time |-> t]

\* ext_res before extract_gpstime is called.
NotCalled == <<-2, -2>>

\* No call of extract_gpstime is modelled.
ExtIdle ==
  /\ ext_msg = None
  /\ ext_last = ZeroTime
  /\ ext_res = NotCalled

\* No comparator call is modelled.
CmpIdle ==
  /\ ExtIdle
  /\ cmp_g0 = ZeroTime
  /\ cmp_g1 = ZeroTime
  /\ cmp_b = 0
  /\ cmp_which = -1
  /\ cmp_pass = -1

\* main is not modelled: the two logs are given.
MainIdle ==
  /\ args_base = ""
  /\ log_in = << >>
  /\ log_pos = 0

ZipStart ==
  /\ base_msg = None
  /\ rove_msg = None
  /\ last_gpstime = ZeroTime
  /\ last_base_gpstime = ZeroTime
  /\ base_pos = 0
  /\ rove_pos = 0
  /\ out = << >>
  /\ base_hist = << >>

\* while base_msg is None: false on entry.
BaseSkip ==
  /\ pc = "base"
  /\ base_msg # None
  /\ pc' = "rove"
  /\ UNCHANGED << mainvars, cmpvars, base_log, rove_log, base_pos, rove_pos, brate, base_msg,
                  rove_msg, last_gpstime, last_base_gpstime, out, base_hist >>

\* next(base_gen) yields a message that passes the filter and the gate.
BaseAccept ==
  /\ pc = "base"
  /\ base_msg = None
  /\ base_pos < Len(base_log)
  /\ LET m == base_log[base_pos + 1]
         t == extract_gpstime(m, last_gpstime)
     IN /\ BaseAccepted(m, t)
        /\ last_base_gpstime' = t
        /\ base_msg' = FixUpBaseId(m)
        /\ base_hist' = Append(base_hist,
             [msg |-> m, time |-> t, prev |-> last_base_gpstime, acc |-> TRUE])
  /\ base_pos' = base_pos + 1
  /\ pc' = "rove"
  /\ UNCHANGED << mainvars, cmpvars, base_log, rove_log, rove_pos, brate, rove_msg,
                  last_gpstime, out >>

\* next(base_gen) yields a message that is dropped.
BaseDiscard ==
  /\ pc = "base"
  /\ base_msg = None
  /\ base_pos < Len(base_log)
  /\ LET m == base_log[base_pos + 1]
         t == extract_gpstime(m, last_gpstime)
     IN /\ ~BaseAccepted(m, t)
        /\ base_hist' = Append(base_hist,
             [msg |-> m, time |-> t, prev |-> last_base_gpstime, acc |-> FALSE])
  /\ base_pos' = base_pos + 1
  /\ UNCHANGED << mainvars, cmpvars, pc, base_log, rove_log, rove_pos, brate, base_msg, rove_msg,
                  last_gpstime, last_base_gpstime, out >>

\* next(base_gen) raises StopIteration.
BaseStop ==
  /\ pc = "base"
  /\ base_msg = None
  /\ base_pos = Len(base_log)
  /\ pc' = "rove"
  /\ UNCHANGED << mainvars, cmpvars, base_log, rove_log, base_pos, rove_pos, brate, base_msg,
                  rove_msg, last_gpstime, last_base_gpstime, out, base_hist >>

\* while rove_msg is None: false on entry.
RoveSkip ==
  /\ pc = "rove"
  /\ rove_msg # None
  /\ pc' = "decide"
  /\ UNCHANGED << mainvars, cmpvars, base_log, rove_log, base_pos, rove_pos, brate, base_msg,
                  rove_msg, last_gpstime, last_base_gpstime, out, base_hist >>

RoveAccept ==
  /\ pc = "rove"
  /\ rove_msg = None
  /\ rove_pos < Len(rove_log)
  /\ RoveAccepted(rove_log[rove_pos + 1])
  /\ rove_msg' = rove_log[rove_pos + 1]
  /\ rove_pos' = rove_pos + 1
  /\ pc' = "decide"
  /\ UNCHANGED << mainvars, cmpvars, base_log, rove_log, base_pos, brate, base_msg,
                  last_gpstime, last_base_gpstime, out, base_hist >>

RoveDiscard ==
  /\ pc = "rove"
  /\ rove_msg = None
  /\ rove_pos < Len(rove_log)
  /\ ~RoveAccepted(rove_log[rove_pos + 1])
  /\ rove_pos' = rove_pos + 1
  /\ UNCHANGED << mainvars, cmpvars, pc, base_log, rove_log, base_pos, brate, base_msg, rove_msg,
                  last_gpstime, last_base_gpstime, out, base_hist >>

RoveStop ==
  /\ pc = "rove"
  /\ rove_msg = None
  /\ rove_pos = Len(rove_log)
  /\ pc' = "decide"
  /\ UNCHANGED << mainvars, cmpvars, base_log, rove_log, base_pos, rove_pos, brate, base_msg,
                  rove_msg, last_gpstime, last_base_gpstime, out, base_hist >>

\* Return as soon as the base slot is empty.
Return_Early ==
  /\ pc = "decide"
  /\ base_msg = None
  /\ pc' = "done"
  /\ UNCHANGED << mainvars, cmpvars, base_log, rove_log, base_pos, rove_pos,
                  brate, base_msg, rove_msg, last_gpstime, last_base_gpstime,
                  out, base_hist >>

\* Both slots empty: return.
Return ==
  /\ pc = "decide"
  /\ base_msg = None
  /\ rove_msg = None
  /\ pc' = "done"
  /\ UNCHANGED << mainvars, cmpvars, base_log, rove_log, base_pos, rove_pos, brate, base_msg,
                  rove_msg, last_gpstime, last_base_gpstime, out, base_hist >>

\* Only a rover message is pending.
EmitRoveOnly ==
  /\ pc = "decide"
  /\ base_msg = None
  /\ rove_msg # None
  /\ out' = Append(out, Emitted(rove_msg, "rove",
                                extract_gpstime(rove_msg, last_gpstime)))
  /\ rove_msg' = None
  /\ pc' = "base"
  /\ UNCHANGED << mainvars, cmpvars, base_log, rove_log, base_pos, rove_pos, brate, base_msg,
                  last_gpstime, last_base_gpstime, base_hist >>

\* The pending base message is dropped without being emitted.
EmitBaseOnly_Drop ==
  /\ pc = "decide"
  /\ base_msg # None
  /\ rove_msg = None
  /\ base_msg' = None
  /\ pc' = "base"
  /\ UNCHANGED << mainvars, cmpvars, base_log, rove_log, base_pos, rove_pos,
                  brate, rove_msg, last_gpstime, last_base_gpstime, out,
                  base_hist >>

\* Only a base message is pending.
EmitBaseOnly ==
  /\ pc = "decide"
  /\ base_msg # None
  /\ rove_msg = None
  /\ out' = Append(out, Emitted(base_msg, "base",
                                extract_gpstime(base_msg, last_gpstime)))
  /\ base_msg' = None
  /\ pc' = "base"
  /\ UNCHANGED << mainvars, cmpvars, base_log, rove_log, base_pos, rove_pos, brate, rove_msg,
                  last_gpstime, last_base_gpstime, base_hist >>

\* Both pending, compare_gpstime(rove_time, base_time) = 1: the base message.
EmitBase ==
  /\ pc = "decide"
  /\ base_msg # None
  /\ rove_msg # None
  /\ LET base_time == extract_gpstime(base_msg, last_gpstime)
         rove_time == extract_gpstime(rove_msg, last_gpstime)
     IN /\ compare_gpstime(rove_time, base_time) = 1
        /\ out' = Append(out, Emitted(base_msg, "base", base_time))
        /\ last_gpstime' = base_time
  /\ base_msg' = None
  /\ pc' = "base"
  /\ UNCHANGED << mainvars, cmpvars, base_log, rove_log, base_pos, rove_pos, brate, rove_msg,
                  last_base_gpstime, base_hist >>

\* The rover message is emitted and both slots are cleared.
EmitRove_ClearBoth ==
  /\ pc = "decide"
  /\ base_msg # None
  /\ rove_msg # None
  /\ LET base_time == extract_gpstime(base_msg, last_gpstime)
         rove_time == extract_gpstime(rove_msg, last_gpstime)
     IN /\ compare_gpstime(rove_time, base_time) # 1
        /\ out' = Append(out, Emitted(rove_msg, "rove", rove_time))
        /\ last_gpstime' = rove_time
  /\ rove_msg' = None
  /\ base_msg' = None
  /\ pc' = "base"
  /\ UNCHANGED << mainvars, cmpvars, base_log, rove_log, base_pos, rove_pos,
                  brate, last_base_gpstime, base_hist >>

\* Both pending, compare_gpstime(rove_time, base_time) # 1: the rover message.
EmitRove ==
  /\ pc = "decide"
  /\ base_msg # None
  /\ rove_msg # None
  /\ LET base_time == extract_gpstime(base_msg, last_gpstime)
         rove_time == extract_gpstime(rove_msg, last_gpstime)
     IN /\ compare_gpstime(rove_time, base_time) # 1
        /\ out' = Append(out, Emitted(rove_msg, "rove", rove_time))
        /\ last_gpstime' = rove_time
  /\ rove_msg' = None
  /\ pc' = "base"
  /\ UNCHANGED << mainvars, cmpvars, base_log, rove_log, base_pos, rove_pos, brate, base_msg,
                  last_base_gpstime, base_hist >>

ZipNext ==
  \/ BaseSkip \/ BaseAccept \/ BaseDiscard \/ BaseStop
  \/ RoveSkip \/ RoveAccept \/ RoveDiscard \/ RoveStop
  \/ Return \/ EmitRoveOnly \/ EmitBaseOnly \/ EmitBase \/ EmitRove

(***************************************************************************)
(* zip_json_generators on any two logs.                                    *)
(***************************************************************************)
Init ==
  /\ pc = "base"
  /\ base_log \in SeqsUpTo(Msgs, MaxLen)
  /\ rove_log \in SeqsUpTo(Msgs, MaxLen)
  /\ Len(base_log) + Len(rove_log) <= MaxLen
  /\ brate \in Brates
  /\ ZipStart
  /\ MainIdle
  /\ CmpIdle

Next == ZipNext

Spec == Init /\ [][Next]_vars

\* The same, with the interpreter always taking the next step of the loop.
SpecLive == Init /\ [][Next]_vars /\ WF_vars(Next)

(***************************************************************************)
(* main with a single combined log: the splitter, then the zipper on the   *)
(* two files it wrote.                                                     *)
(***************************************************************************)
\* The splitter's test inverted.
SplitToBase_Swapped(m) == m.sender # 0

\* The splitter's test true of every sender.
SplitToBase_All(m) == m.sender >= 0

\* Line 263: msg.sender == 0 sends the message to the base file.
SplitToBase(m) == m.sender = 0

\* next(msg_gen) yields a message of sender 0: written to base_log_file.
SplitBase ==
  /\ pc = "split"
  /\ log_pos < Len(log_in)
  /\ SplitToBase(log_in[log_pos + 1])
  /\ base_log' = Append(base_log, log_in[log_pos + 1])
  /\ log_pos' = log_pos + 1
  /\ UNCHANGED << cmpvars, pc, log_in, args_base, rove_log, base_pos, rove_pos, brate,
                  base_msg, rove_msg, last_gpstime, last_base_gpstime, out,
                  base_hist >>

\* next(msg_gen) yields any other message: written to rover_log_file.
SplitRove ==
  /\ pc = "split"
  /\ log_pos < Len(log_in)
  /\ ~SplitToBase(log_in[log_pos + 1])
  /\ rove_log' = Append(rove_log, log_in[log_pos + 1])
  /\ log_pos' = log_pos + 1
  /\ UNCHANGED << cmpvars, pc, log_in, args_base, base_log, base_pos, rove_pos, brate,
                  base_msg, rove_msg, last_gpstime, last_base_gpstime, out,
                  base_hist >>

\* StopIteration ends the splitter; main opens the two files and calls
\* zip_json_files on them.
SplitStop ==
  /\ pc = "split"
  /\ log_pos = Len(log_in)
  /\ pc' = "base"
  /\ UNCHANGED << mainvars, cmpvars, base_log, rove_log, base_pos, rove_pos,
                  brate, base_msg, rove_msg, last_gpstime, last_base_gpstime,
                  out, base_hist >>

SplitInit ==
  /\ pc = "split"
  /\ args_base = ""
  /\ log_in \in SeqsUpTo(Msgs, MaxLen)
  /\ log_pos = 0
  /\ base_log = << >>
  /\ rove_log = << >>
  /\ brate \in Brates
  /\ ZipStart
  /\ CmpIdle

SplitNext == SplitBase \/ SplitRove \/ SplitStop \/ ZipNext

SpecSplit == SplitInit /\ [][SplitNext]_vars

(***************************************************************************)
(* The comparators called on their own.                                    *)
(***************************************************************************)
CallCompare ==
  /\ pc = "cmp"
  /\ cmp_which = -1
  /\ cmp_which' = compare_gpstime(cmp_g0, cmp_g1)
  /\ UNCHANGED << mainvars, pc, cmp_g0, cmp_g1, cmp_b, cmp_pass, ext_msg,
                  ext_last, ext_res, base_log,
                  rove_log, base_pos, rove_pos, brate, base_msg, rove_msg,
                  last_gpstime, last_base_gpstime, out, base_hist >>

CallCompareBrate ==
  /\ pc = "cmp"
  /\ cmp_pass = -1
  /\ cmp_pass' = compare_gpstime_brate(cmp_g0, cmp_g1, cmp_b)
  /\ UNCHANGED << mainvars, pc, cmp_g0, cmp_g1, cmp_b, cmp_which, ext_msg,
                  ext_last, ext_res, base_log,
                  rove_log, base_pos, rove_pos, brate, base_msg, rove_msg,
                  last_gpstime, last_base_gpstime, out, base_hist >>

CmpInit ==
  /\ pc = "cmp"
  /\ cmp_g0 \in Times
  /\ cmp_g1 \in Times
  /\ cmp_b \in (-1)..MaxBrate
  /\ cmp_which = -1
  /\ cmp_pass = -1
  /\ ExtIdle
  /\ base_log = << >>
  /\ rove_log = << >>
  /\ brate = 0
  /\ ZipStart
  /\ MainIdle

CmpNext == CallCompare \/ CallCompareBrate

SpecCmp == CmpInit /\ [][CmpNext]_vars

(***************************************************************************)
(* extract_gpstime called on its own, on a message of any type.            *)
(***************************************************************************)
MsgTypes == msgs_filter \cup msgs_filter_eph \cup {SBP_MSG_LOG}

CallExtract ==
  /\ pc = "ext"
  /\ ext_res = NotCalled
  /\ ext_res' = extract_gpstime(ext_msg, ext_last)
  /\ UNCHANGED << mainvars, pc, cmp_g0, cmp_g1, cmp_b, cmp_which, cmp_pass,
                  ext_msg, ext_last, base_log, rove_log, base_pos, rove_pos,
                  brate, base_msg, rove_msg, last_gpstime, last_base_gpstime,
                  out, base_hist >>

ExtInit ==
  /\ pc = "ext"
  /\ ext_msg \in { Msg(k, s, w, t) :
                     k \in MsgTypes, s \in Senders, w \in Wns, t \in Tows }
  /\ ext_last \in Times
  /\ ext_res = NotCalled
  /\ cmp_g0 = ZeroTime
  /\ cmp_g1 = ZeroTime
  /\ cmp_b = 0
  /\ cmp_which = -1
  /\ cmp_pass = -1
  /\ base_log = << >>
  /\ rove_log = << >>
  /\ brate = 0
  /\ ZipStart
  /\ MainIdle

ExtNext == CallExtract

SpecExtract == ExtInit /\ [][ExtNext]_vars

(***************************************************************************)
(* The zipper on a base log of observations 5 apart in tow, one of them    *)
(* possibly of another kind, against a short rover log.                    *)
(***************************************************************************)
GateLog(w, s) == [i \in 1..9 |-> Msg(SBP_MSG_OBS, s, w, 5 * (i - 1))]

GateLogs ==
  { GateLog(w, s) : w \in Wns, s \in Senders }
    \cup { [GateLog(w, 1) EXCEPT ![i] = Msg(k, 1, 0, 0)] :
             w \in Wns, i \in 1..9,
             k \in {SBP_MSG_BASE_POS_ECEF, SBP_MSG_LOG} }

GateInit ==
  /\ pc = "base"
  /\ base_log \in GateLogs
  /\ rove_log \in SeqsUpTo(Msgs, 1)
  /\ brate \in {0, 10, 20}
  /\ ZipStart
  /\ MainIdle
  /\ CmpIdle

SpecGate == GateInit /\ [][Next]_vars

(***************************************************************************)
(* Properties.                                                             *)
(***************************************************************************)
\* a <= b in the lexicographic order of (wn, tow).
TimeLeq(a, b) == a[1] < b[1] \/ (a[1] = b[1] /\ a[2] <= b[2])

\* a < b in the lexicographic order of (wn, tow).
TimeLess(a, b) == a[1] < b[1] \/ (a[1] = b[1] /\ a[2] < b[2])

\* The kinds that carry a (wn, tow) of their own.
TimestampedKinds ==
  {SBP_MSG_OBS, SBP_MSG_OSR, SBP_MSG_IONO} \cup msgs_filter_eph

\* The messages of a log that carry a time are in non-decreasing order.
SortedLog(log) ==
  \A i, j \in 1..Len(log) :
    (i < j /\ log[i].msg_type \in TimestampedKinds
           /\ log[j].msg_type \in TimestampedKinds)
      => TimeLeq(<<log[i].wn, log[i].tow>>, <<log[j].wn, log[j].tow>>)

\* C1 (Monotonicity): when both input logs are time-sorted, the times of
\* the emitted messages, each extracted against last_gpstime as it stands
\* at the emit, never decrease along the output.
C1_Monotonicity ==
  (SortedLog(base_log) /\ SortedLog(rove_log))
    => \A i \in 1..(Len(out) - 1) : TimeLeq(out[i].time, out[i + 1].time)

\* C2 (Tie-break): a step taken with a base and a rover message pending at
\* identical extracted times emits the base message.
C2_TieBreakBaseFirst ==
  [][ ( /\ pc = "decide"
        /\ base_msg # None
        /\ rove_msg # None
        /\ extract_gpstime(base_msg, last_gpstime)
             = extract_gpstime(rove_msg, last_gpstime) )
      => ( /\ Len(out') = Len(out) + 1
           /\ out'[Len(out')].src = "base"
           /\ rove_msg' = rove_msg ) ]_vars

\* C3 (Exhaustion handling): with an empty rover log, minimum separation 0
\* and a time-sorted base log of pass-through kinds only, the finished run
\* has emitted exactly the base log, in order, each sender set to 0.
C3_ExhaustionEmitsAllBase ==
  ( /\ pc = "done"
    /\ rove_log = << >>
    /\ brate = 0
    /\ SortedLog(base_log)
    /\ \A i \in 1..Len(base_log) : base_log[i].msg_type \in msgs_filter )
  => ( /\ Len(out) = Len(base_log)
       /\ \A i \in 1..Len(out) :
            /\ out[i].src = "base"
            /\ out[i].msg = [base_log[i] EXCEPT !.sender = 0] )

\* C4 (Filtering): every emitted message is of a pass-through kind, and
\* nothing is emitted when neither log holds a message of such a kind.
C4_OnlyPassThroughEmitted ==
  /\ \A i \in 1..Len(out) : out[i].msg.msg_type \in msgs_filter
  /\ ( ( /\ \A i \in 1..Len(base_log) : base_log[i].msg_type \notin msgs_filter
         /\ \A i \in 1..Len(rove_log) : rove_log[i].msg_type \notin msgs_filter )
       => out = << >> )

\* A finished run that emitted a message and dropped a rover message of
\* non-zero sender for its kind alone.
C4_Witness ==
  /\ pc = "done"
  /\ Len(out) >= 1
  /\ \E i \in 1..Len(rove_log) :
       rove_log[i].sender # 0 /\ rove_log[i].msg_type \notin msgs_filter

\* C5 (Identity rewrite): every emitted message that came from the base
\* log has sender 0.
C5_BaseSenderZero ==
  \A i \in 1..Len(out) : out[i].src = "base" => out[i].msg.sender = 0

\* A base message emitted although every message of the base log had a
\* non-zero sender.
C5_Witness ==
  /\ \E i \in 1..Len(out) : out[i].src = "base"
  /\ \A i \in 1..Len(base_log) : base_log[i].sender # 0

\* The time of the last base message accepted before entry i of base_hist.
PrevAccepted(i) ==
  LET js == { j \in 1..(i - 1) : base_hist[j].acc }
  IN IF js = {} THEN ZeroTime
     ELSE base_hist[CHOOSE j \in js : \A k \in js : k <= j].time

IsAccepted(h) == h.acc

\* The tow of each accepted base message, in order.
AcceptedTows ==
  LET a == SelectSeq(base_hist, IsAccepted)
  IN [i \in 1..Len(a) |-> a[i].msg.tow]

\* C6 (Rate gating): each message pulled from the base log is accepted iff
\* its kind is pass-through and its time is in a later week than the last
\* accepted base time (initially (0,0)), or in the same week at the same
\* tow or at least brate later; of observations at tow 0,5,...,40 with
\* brate 20 exactly those at tow 0, 20, 40 are accepted.
C6_RateGating ==
  /\ \A i \in 1..Len(base_hist) :
       LET h == base_hist[i]
       IN /\ h.msg = base_log[i]
          /\ h.prev = PrevAccepted(i)
          /\ h.msg.msg_type \in TimestampedKinds
               => h.time = <<h.msg.wn, h.msg.tow>>
          /\ h.acc <=>
               /\ h.msg.msg_type \in msgs_filter
               /\ \/ h.time[1] > h.prev[1]
                  \/ /\ h.time[1] = h.prev[1]
                     /\ \/ h.time[2] = h.prev[2]
                        \/ h.time[2] >= h.prev[2] + brate
  /\ ( /\ pc = "done"
       /\ brate = 20
       /\ \E w \in Wns, s \in Senders : base_log = GateLog(w, s) )
     => AcceptedTows = <<0, 20, 40>>

\* The finished run on the observations at tow 0,5,...,40 with brate 20
\* and a rover message in between.
C6_Witness ==
  /\ pc = "done"
  /\ brate = 20
  /\ base_log = GateLog(0, 1)
  /\ Len(out) = 4

\* How often message m occurs in a sequence of messages.
Count(seq, m) == Cardinality({ i \in 1..Len(seq) : seq[i] = m })

\* The emitted messages, in order.
OutMsgs == [i \in 1..Len(out) |-> out[i].msg]

\* The accepted base messages, in order.
AcceptedMsgs ==
  LET a == SelectSeq(base_hist, IsAccepted)
  IN [i \in 1..Len(a) |-> a[i].msg]

AllMsgs == { log_in[i] : i \in 1..Len(log_in) }
             \cup { out[i].msg : i \in 1..Len(out) }

IsSender0(m) == m.sender = 0

NotSender0(m) == m.sender # 0

\* C8 (Log splitter): of the messages read so far, the base file holds
\* those of sender 0 and the rover file all others, each in input order.
C8_SplitPartition ==
  LET read == SubSeq(log_in, 1, log_pos)
  IN /\ base_log = SelectSeq(read, IsSender0)
     /\ rove_log = SelectSeq(read, NotSender0)
     /\ Len(base_log) + Len(rove_log) = log_pos

\* The splitter has read the whole log and written to both files.
C8_Witness ==
  /\ pc = "base"
  /\ log_pos = Len(log_in)
  /\ Len(base_log) >= 1
  /\ Len(rove_log) >= 1

\* C9 (earlierIndex): compare_gpstime(a, b) is 0 iff a is strictly earlier
\* than b, and 1 otherwise, so 1 when a = b.
C9_EarlierIndex ==
  cmp_which # -1
    => cmp_which = (IF TimeLess(cmp_g0, cmp_g1) THEN 0 ELSE 1)

\* C10 (atOrPastThreshold): compare_gpstime_brate(cur, prev, b) is 1 iff
\* cur is in a later week, or in the same week at the same tow or at a tow
\* of at least prev's plus b; otherwise 0, so 0 in an earlier week.
C10_AtOrPastThreshold ==
  cmp_pass # -1
    => /\ cmp_pass \in {0, 1}
       /\ cmp_pass = 1 <=>
            \/ cmp_g0[1] > cmp_g1[1]
            \/ /\ cmp_g0[1] = cmp_g1[1]
               /\ \/ cmp_g0[2] = cmp_g1[2]
                  \/ cmp_g0[2] >= cmp_g1[2] + cmp_b
       /\ cmp_g0[1] < cmp_g1[1] => cmp_pass = 0

\* The gate has passed a pair of equal times under a positive separation.
C10_Witness ==
  /\ cmp_pass = 1
  /\ cmp_g0 = cmp_g1
  /\ cmp_b > 0

\* The kinds that take the fallback as their time.
InheritedKinds ==
  {SBP_MSG_BASE_POS_ECEF, SBP_MSG_BASE_POS_LLH, SBP_MSG_GLO_BIASES}

\* C11 (Timestamp extraction on an unrecognized kind): extract_gpstime
\* returns no value for a message whose kind is neither timestamped nor
\* inherited, and the fallback for the base-position and bias kinds.
C11_ExtractUnrecognized ==
  ext_res # NotCalled
    => /\ ext_msg.msg_type \notin (TimestampedKinds \cup InheritedKinds)
            => ext_res = NoTime
       /\ ext_msg.msg_type \in InheritedKinds => ext_res = ext_last

\* The rover messages pulled so far that pass the rover test.
RoveKept(m) == m.sender # 0 /\ m.msg_type \in msgs_filter

RovePulledKept == SelectSeq(SubSeq(rove_log, 1, rove_pos), RoveKept)

\* What is left to do: the messages not yet pulled or still pending, and
\* the steps left in the current iteration of the loop.
Measure ==
  3 * ( (Len(base_log) - base_pos) + (Len(rove_log) - rove_pos)
        + (IF base_msg = None THEN 0 ELSE 1)
        + (IF rove_msg = None THEN 0 ELSE 1) )
    + (CASE pc = "base" -> 3 [] pc = "rove" -> 2 [] pc = "decide" -> 1
         [] OTHER -> 0)

\* Under the fair specification every run reaches the return.
EventuallyReturns == <>(pc = "done")

\* C12 (Termination): every step of a run on two finite logs lowers a
\* natural-number measure and a step is possible until the return, so the
\* run returns; at the return both logs are read to their end, both slots
\* are empty and every accepted message has been emitted.
C12_Termination ==
  /\ [][Measure' < Measure]_vars
  /\ [](Measure >= 0 /\ (pc = "done" \/ ENABLED Next))
  /\ [](pc = "done"
          => /\ base_pos = Len(base_log)
             /\ rove_pos = Len(rove_log)
             /\ base_msg = None
             /\ rove_msg = None
             /\ Len(out) = Len(AcceptedMsgs) + Len(RovePulledKept))

\* A run that returned after emitting a message of each log.
C12_Witness ==
  /\ pc = "done"
  /\ \E i \in 1..Len(out) : out[i].src = "base"
  /\ \E i \in 1..Len(out) : out[i].src = "rove"

\* C13 (lastGpsTime tracking): last_gpstime starts at (0,0) and after every
\* emit is the extracted time of the message just emitted; last_base_gpstime
\* is the extracted time of the last accepted base message, (0,0) at first.
C13_LastGpsTimeTracksEmits ==
  /\ last_gpstime = (IF out = << >> THEN ZeroTime ELSE out[Len(out)].time)
  /\ last_base_gpstime = PrevAccepted(Len(base_hist) + 1)

\* The pending slots hold pass-through messages only, so the extraction of
\* lines 202-203 is never applied to another kind; the rover loop (lines
\* 177-186) extracts nothing.
PendingPassThrough ==
  /\ base_msg # None => base_msg.msg_type \in msgs_filter
  /\ rove_msg # None => rove_msg.msg_type \in msgs_filter

\* C14 (Filter-before-extract ordering): extract_gpstime is never invoked
\* on a message whose kind is outside the pass-through set.  base_hist holds
\* one entry for each invocation of line 164.
C14_FilterBeforeExtract ==
  /\ \A i \in 1..Len(base_hist) : base_hist[i].msg.msg_type \in msgs_filter
  /\ PendingPassThrough

\* C14 as the code has it: line 164 extracts the time of every message pulled
\* from the base source, whatever its kind, before line 165 tests the kind;
\* a base message outside the pass-through set is then dropped, and
\* extraction on a pending message only ever sees a pass-through kind.
C14_BaseExtractThenFilter ==
  /\ Len(base_hist) = base_pos
  /\ \A i \in 1..Len(base_hist) :
       /\ base_hist[i].msg = base_log[i]
       /\ base_hist[i].msg.msg_type \notin msgs_filter => ~base_hist[i].acc
  /\ PendingPassThrough

C14_Witness ==
  /\ pc = "done"
  /\ out # << >>
  /\ \E i \in 1..Len(base_hist) :
       base_hist[i].msg.msg_type \notin msgs_filter

IsFromRove(e) == e.src = "rove"

IsFromBase(e) == e.src = "base"

\* The messages emitted from the rover source, in order.
RoveEmitted ==
  LET a == SelectSeq(out, IsFromRove)
  IN [i \in 1..Len(a) |-> a[i].msg]

\* The messages emitted from the base source, in order.
BaseEmitted ==
  LET a == SelectSeq(out, IsFromBase)
  IN [i \in 1..Len(a) |-> a[i].msg]

RovePending == IF rove_msg = None THEN << >> ELSE << rove_msg >>

BasePending == IF base_msg = None THEN << >> ELSE << base_msg >>

\* C15 (Rover acceptance): the rover messages accepted so far (emitted or
\* pending) are exactly the pulled ones of non-zero sender and pass-through
\* kind, whatever their times and the separation; an emitted message has
\* sender 0 iff it came from the base source.
C15_RoverAcceptance ==
  /\ RoveEmitted \o RovePending = RovePulledKept
  /\ \A i \in 1..Len(out) : (out[i].msg.sender = 0) <=> (out[i].src = "base")

\* A finished run whose rover log held a pass-through message of sender 0
\* and whose output holds a rover message.
C15_Witness ==
  /\ pc = "done"
  /\ \E i \in 1..Len(rove_log) :
       rove_log[i].sender = 0 /\ rove_log[i].msg_type \in msgs_filter
  /\ \E i \in 1..Len(out) : out[i].src = "rove"

BothPending == pc = "decide" /\ base_msg # None /\ rove_msg # None

\* C16 (Emit frame condition): an emit with both slots occupied clears the
\* emitted side's slot only and leaves the other slot, both read positions
\* and last_base_gpstime as they were; a source is not pulled, and its slot
\* not changed, from then until the pending message is itself emitted.
C16_EmitFrame ==
  /\ [][BothPending =>
          /\ Len(out') = Len(out) + 1
          /\ \/ /\ out'[Len(out')].src = "base"
                /\ out'[Len(out')].msg = base_msg
                /\ base_msg' = None
                /\ rove_msg' = rove_msg
             \/ /\ out'[Len(out')].src = "rove"
                /\ out'[Len(out')].msg = rove_msg
                /\ rove_msg' = None
                /\ base_msg' = base_msg
          /\ last_base_gpstime' = last_base_gpstime
          /\ base_pos' = base_pos
          /\ rove_pos' = rove_pos
          /\ base_hist' = base_hist]_vars
  /\ [][base_msg # None =>
          /\ base_pos' = base_pos
          /\ base_hist' = base_hist
          /\ last_base_gpstime' = last_base_gpstime
          /\ (pc # "decide" => base_msg' = base_msg)]_vars
  /\ [][rove_msg # None =>
          /\ rove_pos' = rove_pos
          /\ (pc # "decide" => rove_msg' = rove_msg)]_vars

\* After an emit the loop is back at its head with a message still pending
\* on one side: both slots were occupied and the other side was emitted.
C16_Witness ==
  /\ pc = "base"
  /\ out # << >>
  /\ \/ base_msg # None /\ out[Len(out)].src = "rove"
     \/ rove_msg # None /\ out[Len(out)].src = "base"

(***************************************************************************)
(* main: the choice between splitting one combined log and zipping two     *)
(* supplied logs.                                                          *)
(***************************************************************************)
\* The attributes of the namespace parse_args returns: one for each
\* add_argument call.
ArgsAttrs == {"rover_log", "base", "brate", "output"}

BasePaths == {"", "base.json"}

\* args.base[0] == '': the combined log is split, then the two files zipped.
MainSplitMode ==
  /\ pc = "main"
  /\ args_base = ""
  /\ pc' = "split"
  /\ UNCHANGED << mainvars, cmpvars, base_log, rove_log, base_pos, rove_pos,
                  brate, base_msg, rove_msg, last_gpstime, last_base_gpstime,
                  out, base_hist >>

\* The else branch reads args.base_log; reading an attribute the namespace
\* does not have raises AttributeError, which nothing catches.
MainTwoLogs ==
  /\ pc = "main"
  /\ args_base # ""
  /\ pc' = IF "base_log" \in ArgsAttrs THEN "base" ELSE "crash"
  /\ UNCHANGED << mainvars, cmpvars, base_log, rove_log, base_pos, rove_pos,
                  brate, base_msg, rove_msg, last_gpstime, last_base_gpstime,
                  out, base_hist >>

\* Either one combined log and the two files still to be written, or two
\* supplied logs.
MainInit ==
  /\ pc = "main"
  /\ args_base \in BasePaths
  /\ log_in \in SeqsUpTo(Msgs, MaxLen)
  /\ base_log \in SeqsUpTo(Msgs, MaxLen)
  /\ rove_log \in SeqsUpTo(Msgs, MaxLen)
  /\ IF args_base = ""
       THEN base_log = << >> /\ rove_log = << >>
       ELSE log_in = << >> /\ Len(base_log) + Len(rove_log) <= MaxLen
  /\ log_pos = 0
  /\ brate \in Brates
  /\ ZipStart
  /\ CmpIdle

MainNext == MainSplitMode \/ MainTwoLogs \/ SplitNext

SpecMain == MainInit /\ [][MainNext]_vars

ZipPcs == {"base", "rove", "decide", "done"}

\* C17 (Input-mode selection in main): the splitter runs iff no base log is
\* supplied, and the two derived files are then zipped; with a base log
\* supplied main skips the splitter and reaches the merge on the two
\* supplied logs without failing.
C17_InputModeSelection ==
  /\ (pc = "split" \/ log_pos > 0) => args_base = ""
  /\ (args_base = "" /\ pc \in ZipPcs)
       => /\ log_pos = Len(log_in)
          /\ base_log = SelectSeq(log_in, IsSender0)
          /\ rove_log = SelectSeq(log_in, NotSender0)
  /\ (args_base # "" /\ pc # "main") => (pc \in ZipPcs /\ log_pos = 0)

\* The accepted base messages as they are emitted, in order.
AcceptedFixedUp == [i \in 1..Len(AcceptedMsgs) |-> FixUpBaseId(AcceptedMsgs[i])]

\* C18 (no loss, duplication or reordering per side): the base messages are
\* pulled once each in input order; those emitted from the base source,
\* followed by the pending one, are the accepted ones in that order, and
\* those emitted from the rover source, followed by the pending one, are the
\* pulled rover messages that pass the rover filter, in that order; when the
\* run ends nothing is pending, so each accepted message was emitted once.
C18_PerSideOrderKept ==
  /\ Len(base_hist) = base_pos
  /\ \A i \in 1..base_pos : base_hist[i].msg = base_log[i]
  /\ BaseEmitted \o BasePending = AcceptedFixedUp
  /\ RoveEmitted \o RovePending = RovePulledKept
  /\ Len(BaseEmitted) + Len(RoveEmitted) = Len(out)
  /\ pc = "done" => /\ BaseEmitted = AcceptedFixedUp
                    /\ RoveEmitted = SelectSeq(rove_log, RoveKept)
                    /\ base_pos = Len(base_log)

\* A finished run that emitted a base message and dropped another at the
\* gate or the filter.
C18_Witness ==
  /\ pc = "done"
  /\ BaseEmitted # << >>
  /\ \E i \in 1..Len(base_hist) : ~base_hist[i].acc

\* C19 (monotone base gate): with a separation of at least 0 and any base
\* log, each accepted base message has a time at or after the time of the
\* accepted one before it (initially (0,0)), in the same week at the same
\* tow or at least brate later; last_base_gpstime is the time of the last
\* accepted one, so it never decreases.
C19_MonotoneBaseGate ==
  brate >= 0
    => /\ \A i \in 1..Len(base_hist) :
            base_hist[i].acc
              => /\ base_hist[i].prev = PrevAccepted(i)
                 /\ TimeLeq(base_hist[i].prev, base_hist[i].time)
                 /\ base_hist[i].time[1] = base_hist[i].prev[1]
                      => \/ base_hist[i].time[2] = base_hist[i].prev[2]
                         \/ base_hist[i].time[2] - base_hist[i].prev[2] >= brate
       /\ last_base_gpstime = PrevAccepted(Len(base_hist) + 1)
       /\ TimeLeq(ZeroTime, last_base_gpstime)

\* Two base messages accepted at different times of one week under a
\* positive separation.
C19_Witness ==
  /\ brate > 0
  /\ \E i, j \in 1..Len(base_hist) :
       /\ i < j
       /\ base_hist[i].acc
       /\ base_hist[j].acc
       /\ base_hist[i].time # base_hist[j].time
       /\ base_hist[i].time[1] = base_hist[j].time[1]

=============================================================================
